---- MODULE Spec2Model ----
(***************************************************************************)
(* Model of src/wireguard.rs of prometheus_wireguard_exporter: the parser  *)
(* WireGuard::try_from (text of `wg show all dump` -> interface table) and  *)
(* the renderer WireGuard::render_with_names (table + optional peer-name    *)
(* lookup -> Prometheus exposition lines).                                  *)
(*                                                                         *)
(* Text is modelled by TLA+ strings and is really split, filtered and      *)
(* decoded character by character.  Option<T> is a sequence of length 0    *)
(* (None) or 1 (Some).  A HashMap is a function on its key set; its        *)
(* iteration order is a nondeterministic permutation of the keys.          *)
(***************************************************************************)
EXTENDS Integers, Sequences, FiniteSets, TLC

VARIABLES
    rows,       \* the rows of the status dump, in line order
    trailing,   \* the number of line terminators after the last row
    input,      \* the &str handed to WireGuard::try_from: the dump's text
    result,     \* outcome of try_from: not called yet, Ok(table), Err, or panic
    pehm,       \* the Option<&PeerEntryHashMap> of the last render call
    output,     \* what the last render_with_names call returned (its lines)
    pc          \* "start" -> "parsed" -> "rendered"

vars == <<rows, trailing, input, result, pehm, output, pc>>

-----------------------------------------------------------------------------
(* Bounds of the model *)

\* most lines in one status dump
MaxLines == 3
\* most line terminators after the last line of the dump
MaxTrailing == 2

-----------------------------------------------------------------------------
(* Option<T> *)

None == <<>>
Some(x) == <<x>>
IsSome(o) == Len(o) = 1
Unwrap(o) == o[1]

-----------------------------------------------------------------------------
(* Strings: the std operations the source calls *)

CharAt(s, i) == SubSeq(s, i, i)

Last(seq) == seq[Len(seq)]
Front(seq) == SubSeq(seq, 1, Len(seq) - 1)

\* the positions of the separator sep in s
SepPositions(s, sep) == {i \in 1..Len(s) : CharAt(s, i) = sep}

\* the k-th smallest position of P; 0 for k = 0 and `past` beyond the last
NthPosition(P, k, past) ==
    IF k = 0 THEN 0
    ELSE IF k > Cardinality(P) THEN past
    ELSE CHOOSE i \in P : Cardinality({j \in P : j < i}) = k - 1

\* str::split(sep) for a one-character separator: the pieces between the
\* separators, empty pieces included; always at least one piece.
Split(s, sep) ==
    LET P == SepPositions(s, sep)
    IN  [k \in 1..(Cardinality(P) + 1) |->
            SubSeq(s, NthPosition(P, k - 1, Len(s) + 1) + 1,
                      NthPosition(P, k, Len(s) + 1) - 1)]

\* a line of str::lines() loses one trailing carriage return
StripCR(l) ==
    IF Len(l) > 0 /\ CharAt(l, Len(l)) = "\r" THEN SubSeq(l, 1, Len(l) - 1) ELSE l

\* A plausible slip: every piece between line feeds is a line (str::split).
LinesKeepLast(s) ==
    LET parts == Split(s, "\n")
    IN  [i \in 1..Len(parts) |-> StripCR(parts[i])]

\* str::lines(): split on line feeds; the final line terminator is optional,
\* so ONE empty piece after the last line feed is not a line.  Earlier empty
\* pieces are lines.
Lines(s) ==
    LET parts == Split(s, "\n")
        kept  == IF Last(parts) = "" THEN Front(parts) ELSE parts
    IN  [i \in 1..Len(kept) |-> StripCR(kept[i])]

DigitChar(d) == CharAt("0123456789", d + 1)
IsDigit(c) == \E d \in 0..9 : DigitChar(d) = c
DigitVal(c) == CHOOSE d \in 0..9 : DigitChar(d) = c

AllDigits(s) == \A i \in 1..Len(s) : IsDigit(CharAt(s, i))

RECURSIVE DigitsValue(_, _, _)
DigitsValue(s, i, acc) ==
    IF i > Len(s) THEN acc
    ELSE DigitsValue(s, i + 1, acc * 10 + DigitVal(CharAt(s, i)))

\* Display of an unsigned integer
RECURSIVE UIntToString(_)
UIntToString(n) ==
    IF n < 10 THEN DigitChar(n)
    ELSE UIntToString(n \div 10) \o DigitChar(n % 10)

-----------------------------------------------------------------------------
(* Decoding of fields *)

\* largest u16 (local_port, SocketAddr port)
U16Max == 65535
\* largest octet of an IPv4 address
OctetMax == 255

ParseOk(v) == [ok |-> TRUE, val |-> v]
ParseErr == [ok |-> FALSE, val |-> 0]

\* str::parse::<uN>(): an optional leading "+", then one or more decimal
\* digits, the value at most max.
ParseUInt(s, max) ==
    LET body == IF Len(s) > 0 /\ CharAt(s, 1) = "+" THEN SubSeq(s, 2, Len(s)) ELSE s
    IN  IF Len(body) = 0 \/ ~AllDigits(body) THEN ParseErr
        ELSE IF Len(body) > Len(UIntToString(max)) THEN ParseErr
        ELSE IF DigitsValue(body, 1, 0) > max THEN ParseErr
        ELSE ParseOk(DigitsValue(body, 1, 0))

\* str::parse::<u64>() and ::<u128>(): as ParseUInt; the largest values of
\* these types lie beyond the integers TLC computes with, and every number of
\* the inputs below has at most MaxDigits digits, so no overflow case exists.
MaxDigits == 9
ParseWide(s) ==
    LET body == IF Len(s) > 0 /\ CharAt(s, 1) = "+" THEN SubSeq(s, 2, Len(s)) ELSE s
    IN  IF Len(body) = 0 \/ ~AllDigits(body) \/ Len(body) > MaxDigits THEN ParseErr
        ELSE ParseOk(DigitsValue(body, 1, 0))

\* one decimal group of the address parsers: digits only, no sign, no
\* leading zero, at most `max`
ParseGroup(s, max) ==
    IF Len(s) = 0 \/ ~AllDigits(s) THEN ParseErr
    ELSE IF Len(s) > 1 /\ CharAt(s, 1) = "0" THEN ParseErr
    ELSE IF Len(s) > Len(UIntToString(max)) THEN ParseErr
    ELSE IF DigitsValue(s, 1, 0) > max THEN ParseErr
    ELSE ParseOk(DigitsValue(s, 1, 0))

\* str::parse::<SocketAddr>() for the IPv4 form "a.b.c.d:port": val is
\* [ip |-> the four octets, port |-> the port]
ParseSocketAddr(s) ==
    LET parts == Split(s, ":")
    IN  IF Len(parts) # 2 THEN ParseErr
        ELSE LET octets == Split(parts[1], ".")
                 port   == ParseGroup(parts[2], U16Max)
             IN  IF Len(octets) # 4 \/ ~port.ok THEN ParseErr
                 ELSE IF \E i \in 1..4 : ~ParseGroup(octets[i], OctetMax).ok THEN ParseErr
                 ELSE ParseOk([ip   |-> [i \in 1..4 |-> ParseGroup(octets[i], OctetMax).val],
                               port |-> port.val])

\* IpAddr::to_string() of an IPv4 address
IpToString(ip) ==
    UIntToString(ip[1]) \o "." \o UIntToString(ip[2]) \o "." \o
    UIntToString(ip[3]) \o "." \o UIntToString(ip[4])

EMPTY == "(none)"

to_option_string(s) == IF s = EMPTY THEN None ELSE Some(s)

to_bool(s) == s # "off"

-----------------------------------------------------------------------------
(* WireGuard::try_from *)

\* the outcome of decoding one row, and of try_from: Ok, the format error
\* (ExporterError, from `?` on a ParseIntError), or a panic (an unwrap of
\* an Err, an index past the end of a Vec)
Panic == [tag |-> "Panic"]
Err == [tag |-> "Err"]
OkRow(e) == [tag |-> "Ok", endpoint |-> e]
OkTable(m) == [tag |-> "Ok", interfaces |-> m]

\* A plausible slip: the empty tokens are kept.
TokensUnfiltered(line) == Split(line, "\t")

\* line.split('\t').filter(|s| !s.is_empty()).collect()
Tokens(line) == SelectSeq(Split(line, "\t"), LAMBDA t : t # "")

\* the row shape: v.len() == 5 is the local interface
IsLocalRow(v) == Len(v) = 5

LocalRow(v) ==
    LET port == ParseUInt(v[4], U16Max)
    IN  IF ~port.ok THEN Panic
        ELSE OkRow([kind                 |-> "Local",
                    public_key           |-> v[2],
                    private_key          |-> v[3],
                    local_port           |-> port.val,
                    persistent_keepalive |-> to_bool(v[5])])

\* A plausible slip: the socket address is read from the placeholder field.
SocketFieldThird(v) == v[3]

\* the token holding the peer's socket address: v[3] of the source, which
\* counts from 0
SocketField(v) == v[4]

\* (remote_ip, remote_port) of a remote row; a socket address that does not
\* parse panics
RemoteAddr(v) ==
    LET ip_and_port == to_option_string(SocketField(v))
    IN  IF IsSome(ip_and_port)
        THEN LET addr == ParseSocketAddr(Unwrap(ip_and_port))
             IN  IF ~addr.ok THEN Panic
                 ELSE [tag         |-> "Ok",
                       remote_ip   |-> Some(IpToString(addr.val.ip)),
                       remote_port |-> Some(addr.val.port)]
        ELSE [tag |-> "Ok", remote_ip |-> None, remote_port |-> None]

\* A plausible slip: a handshake that does not decode counts as "never".
LatestHandshakeOrZero(s) ==
    IF ParseWide(s).ok THEN ParseWide(s) ELSE ParseOk(0)

\* v[5].parse::<u64>()
LatestHandshake(s) == ParseWide(s)

\* The fields are read in the order of the source: the first one that fails
\* decides the outcome.
RemoteRow(v) ==
    IF Len(v) < 4 THEN Panic
    ELSE LET addr == RemoteAddr(v)
         IN  IF addr.tag # "Ok" THEN Panic
             ELSE IF Len(v) < 5 THEN Panic
             ELSE LET tok == Split(v[5], "/")
                  IN  IF Len(tok) < 2 THEN Panic
                      ELSE IF Len(v) < 6 THEN Panic
                      ELSE IF ~LatestHandshake(v[6]).ok THEN Err
                      ELSE IF Len(v) < 7 THEN Panic
                      ELSE IF ~ParseWide(v[7]).ok THEN Panic
                      ELSE IF Len(v) < 8 THEN Panic
                      ELSE IF ~ParseWide(v[8]).ok THEN Panic
                      ELSE IF Len(v) < 9 THEN Panic
                      ELSE OkRow([kind                 |-> "Remote",
                                  public_key           |-> v[2],
                                  remote_ip            |-> addr.remote_ip,
                                  remote_port          |-> addr.remote_port,
                                  local_ip             |-> tok[1],
                                  local_subnet         |-> tok[2],
                                  latest_handshake     |-> LatestHandshake(v[6]).val,
                                  sent_bytes           |-> ParseWide(v[7]).val,
                                  received_bytes       |-> ParseWide(v[8]).val,
                                  persistent_keepalive |-> to_bool(v[9])])

Row(v) == IF IsLocalRow(v) THEN LocalRow(v) ELSE RemoteRow(v)

\* A plausible slip: the interface's vector is replaced, not extended.
PushEndpointReplace(interfaces, key, endpoint) ==
    [k \in DOMAIN interfaces \cup {key} |->
        IF k = key THEN << endpoint >> ELSE interfaces[k]]

\* A plausible slip: the endpoint is inserted at the front.
PushEndpointFront(interfaces, key, endpoint) ==
    [k \in DOMAIN interfaces \cup {key} |->
        IF k = key
        THEN (IF key \in DOMAIN interfaces
              THEN << endpoint >> \o interfaces[key] ELSE << endpoint >>)
        ELSE interfaces[k]]

\* get_mut(v[0]) and push, or insert of a new one-element vector
PushEndpoint(interfaces, key, endpoint) ==
    [k \in DOMAIN interfaces \cup {key} |->
        IF k = key
        THEN (IF key \in DOMAIN interfaces
              THEN Append(interfaces[key], endpoint) ELSE << endpoint >>)
        ELSE interfaces[k]]

\* the loop over the lines from line i on, with the table built so far
RECURSIVE TryFromLoop(_, _, _)
TryFromLoop(lines, i, interfaces) ==
    IF i > Len(lines) THEN OkTable(interfaces)
    ELSE LET v   == Tokens(lines[i])
             row == Row(v)
         IN  IF row.tag # "Ok" THEN row
             ELSE TryFromLoop(lines, i + 1, PushEndpoint(interfaces, v[1], row.endpoint))

\* HashMap::new()
EmptyMap == << >>

try_from(text) == TryFromLoop(Lines(text), 1, EmptyMap)

-----------------------------------------------------------------------------
(* WireGuard::render_with_names *)

\* PrometheusCounter::new(name, type, help)
pc_sent_bytes_total ==
    [name |-> "wireguard_sent_bytes_total", type |-> "counter",
     help |-> "Bytes sent to the peer"]
pc_received_bytes_total ==
    [name |-> "wireguard_received_bytes_total", type |-> "counter",
     help |-> "Bytes received from the peer"]
pc_latest_handshake ==
    [name |-> "wireguard_latest_handshake_seconds", type |-> "gauge",
     help |-> "Seconds from the last handshake"]

\* The rendered text is kept as its lines.  render_header gives the two
\* lines "# HELP <name> <help>" and "# TYPE <name> <type>"; render_counter
\* gives the one line <name>{k="v",...} <value>.
render_header(c) ==
    << [kind |-> "HELP", name |-> c.name, text |-> c.help],
       [kind |-> "TYPE", name |-> c.name, text |-> c.type] >>

render_counter(c, attributes, value) ==
    << [kind |-> "sample", name |-> c.name, labels |-> attributes, value |-> value] >>

\* A plausible slip: the label is pushed for every entry found, with an
\* empty value when the entry has no name.
FriendlyNameUnwrapOr(p, public_key) ==
    IF IsSome(p) /\ public_key \in DOMAIN Unwrap(p)
    THEN (IF IsSome(Unwrap(p)[public_key].name)
          THEN << << "friendly_name", Unwrap(Unwrap(p)[public_key].name) >> >>
          ELSE << << "friendly_name", "" >> >>)
    ELSE << >>

\* the three nested `if let Some`: the lookup is supplied, has an entry for
\* the key, and the entry has a name
FriendlyName(p, public_key) ==
    IF IsSome(p)
    THEN (IF public_key \in DOMAIN Unwrap(p)
          THEN (IF IsSome(Unwrap(p)[public_key].name)
                THEN << << "friendly_name", Unwrap(Unwrap(p)[public_key].name) >> >>
                ELSE << >>)
          ELSE << >>)
    ELSE << >>

Attributes(interface, ep, p) ==
    << << "inteface", interface >>,
       << "public_key", ep.public_key >>,
       << "local_ip", ep.local_ip >>,
       << "local_subnet", ep.local_subnet >> >>
    \o FriendlyName(p, ep.public_key)

NoItems == [sent |-> << >>, received |-> << >>, handshake |-> << >>]

\* A plausible slip: the local endpoint is shown too.
EndpointItemsAll(interface, endpoint, p) ==
    IF endpoint.kind = "Remote"
    THEN [sent      |-> render_counter(pc_sent_bytes_total,
                                       Attributes(interface, endpoint, p),
                                       endpoint.sent_bytes),
          received  |-> render_counter(pc_received_bytes_total,
                                       Attributes(interface, endpoint, p),
                                       endpoint.received_bytes),
          handshake |-> render_counter(pc_latest_handshake,
                                       Attributes(interface, endpoint, p),
                                       endpoint.latest_handshake)]
    ELSE LET attributes == << << "inteface", interface >>,
                              << "public_key", endpoint.public_key >> >>
                           \o FriendlyName(p, endpoint.public_key)
         IN  [sent      |-> render_counter(pc_sent_bytes_total, attributes, 0),
              received  |-> render_counter(pc_received_bytes_total, attributes, 0),
              handshake |-> render_counter(pc_latest_handshake, attributes, 0)]

\* what one endpoint adds to the three vectors: only remote endpoints show
EndpointItems(interface, endpoint, p) ==
    IF endpoint.kind = "Remote"
    THEN [sent      |-> render_counter(pc_sent_bytes_total,
                                       Attributes(interface, endpoint, p),
                                       endpoint.sent_bytes),
          received  |-> render_counter(pc_received_bytes_total,
                                       Attributes(interface, endpoint, p),
                                       endpoint.received_bytes),
          handshake |-> render_counter(pc_latest_handshake,
                                       Attributes(interface, endpoint, p),
                                       endpoint.latest_handshake)]
    ELSE NoItems

\* the endpoints in the order the two nested loops visit them: the
\* interfaces in the map's iteration order, each one's endpoints in the
\* order of its vector
RECURSIVE Visits(_, _, _)
Visits(interfaces, order, i) ==
    IF i > Len(order) THEN << >>
    ELSE [j \in 1..Len(interfaces[order[i]]) |->
            [interface |-> order[i], endpoint |-> interfaces[order[i]][j]]]
         \o Visits(interfaces, order, i + 1)

\* the three vectors after the loops, each begun with its header
RECURSIVE Collect(_, _, _, _)
Collect(visits, i, p, acc) ==
    IF i > Len(visits) THEN acc
    ELSE LET items == EndpointItems(visits[i].interface, visits[i].endpoint, p)
         IN  Collect(visits, i + 1, p,
                     [sent      |-> acc.sent \o items.sent,
                      received  |-> acc.received \o items.received,
                      handshake |-> acc.handshake \o items.handshake])

\* A plausible slip: the handshake block is joined before the received one.
JoinFamiliesSwapped(s_sent_bytes_total, s_received_bytes_total, s_latest_handshake) ==
    s_sent_bytes_total \o s_latest_handshake \o s_received_bytes_total

\* the final join, in the fixed family order
JoinFamilies(s_sent_bytes_total, s_received_bytes_total, s_latest_handshake) ==
    s_sent_bytes_total \o s_received_bytes_total \o s_latest_handshake

render_with_names(interfaces, order, p) ==
    LET acc == Collect(Visits(interfaces, order, 1), 1, p,
                       [sent      |-> render_header(pc_sent_bytes_total),
                        received  |-> render_header(pc_received_bytes_total),
                        handshake |-> render_header(pc_latest_handshake)])
    IN  JoinFamilies(acc.sent, acc.received, acc.handshake)

\* the orders in which a HashMap with key set S may iterate
IterationOrders(S) ==
    {f \in [1..Cardinality(S) -> S] : \A a, b \in 1..Cardinality(S) : a # b => f[a] # f[b]}

-----------------------------------------------------------------------------
(* Inputs *)

\* rows of a status dump: local and remote rows of two interfaces, with and
\* without a socket address, with stray tabs, one whose handshake field is
\* not a number and one whose local port is no u16
LocalWg0 == "wg0\tKl\tPV\t51820\toff"
RemoteWg0Addr == "wg0\tK1\t(none)\t1.2.3.4:80\t10.0.0.2/32\t15\t10\t20\toff"
RemoteWg0None == "wg0\tK2\t(none)\t(none)\t10.0.0.3/32\t0\t0\t0\t25"
RemoteWg1Psk == "wg1\t\tK1\tpsk\t(none)\t10.1.0.2/24\t7\t1\t2\toff"
LocalWg1Stray == "wg1\tKm\t\tPV\t51821\t\toff"
BadHandshake == "wg0\tK2\t(none)\t5.6.7.8:9\t10.0.0.4/32\tx\t3\t4\toff"
BadLocalPort == "wg0\tKl\tPV\t70000\toff"

LineCatalogue ==
    {LocalWg0, RemoteWg0Addr, RemoteWg0None, RemoteWg1Psk, LocalWg1Stray,
     BadHandshake, BadLocalPort}

RECURSIVE Repeat(_, _)
Repeat(s, n) == IF n = 0 THEN "" ELSE s \o Repeat(s, n - 1)

RECURSIVE JoinLines(_, _)
JoinLines(rs, i) ==
    IF i > Len(rs) THEN ""
    ELSE IF i = Len(rs) THEN rs[i]
    ELSE rs[i] \o "\n" \o JoinLines(rs, i + 1)

\* the text of a dump: its rows, one per line, and t line terminators after
\* the last one (`wg` writes one)
Dump(rs, t) == JoinLines(rs, 1) \o Repeat("\n", t)

RowSeqs == UNION {[1..n -> LineCatalogue] : n \in 0..MaxLines}

\* the peer-name lookups a caller may pass: none, or a map from some public
\* keys to entries whose name is absent, empty or a name
LookupKeys == {"Kl", "K1", "K2"}
LookupNames == {None, Some(""), Some("bob")}

PeerEntry(k, n) == [public_key |-> k, allowed_ips |-> "ignored", name |-> n]

PeerEntryHashMaps ==
    UNION {{[k \in D |-> PeerEntry(k, n[k])] : n \in [D -> LookupNames]} :
           D \in SUBSET LookupKeys}

PehmOptions == {None} \cup {Some(m) : m \in PeerEntryHashMaps}

-----------------------------------------------------------------------------
(* The state machine *)

NotCalled == [tag |-> "NotCalled"]

Init ==
    /\ rows \in RowSeqs
    /\ trailing \in 0..MaxTrailing
    /\ input = Dump(rows, trailing)
    /\ result = NotCalled
    /\ pehm = None
    /\ output = << >>
    /\ pc = "start"

\* WireGuard::try_from(input)
TryFrom ==
    /\ pc = "start"
    /\ result' = try_from(input)
    /\ pc' = "parsed"
    /\ UNCHANGED <<rows, trailing, input, pehm, output>>

\* wg.render_with_names(p) on the table try_from returned
RenderWithNames ==
    /\ pc = "parsed"
    /\ result.tag = "Ok"
    /\ \E p \in PehmOptions :
       \E order \in IterationOrders(DOMAIN result.interfaces) :
          /\ pehm' = p
          /\ output' = render_with_names(result.interfaces, order, p)
    /\ pc' = "rendered"
    /\ UNCHANGED <<rows, trailing, input, result>>

Next == TryFrom \/ RenderWithNames

Spec == Init /\ [][Next]_vars

-----------------------------------------------------------------------------
(* What the claims speak of *)

\* the well-formed rows: five fields of a local row or nine of a remote one,
\* every field decodable
GoodRows == LineCatalogue \ {BadHandshake, BadLocalPort}

WellFormedRows == \A i \in 1..Len(rows) : rows[i] \in GoodRows

\* the text holds no empty line: at most the final line terminator follows
\* the last row
NoEmptyLine == trailing = 0 \/ (trailing = 1 /\ Len(rows) > 0)

WellFormedInput == WellFormedRows /\ NoEmptyLine

\* the non-empty tab-separated fields of a row, read off the positions where
\* a field starts and where one ends
FieldStarts(r) ==
    {i \in 1..Len(r) : CharAt(r, i) # "\t" /\ (i = 1 \/ CharAt(r, i - 1) = "\t")}
FieldEnds(r) ==
    {i \in 1..Len(r) : CharAt(r, i) # "\t" /\ (i = Len(r) \/ CharAt(r, i + 1) = "\t")}
Nth(P, k) == CHOOSE i \in P : Cardinality({j \in P : j < i}) = k - 1
FieldsOfText(r) ==
    [k \in 1..Cardinality(FieldStarts(r)) |->
        SubSeq(r, Nth(FieldStarts(r), k), Nth(FieldEnds(r), k))]

\* the fields of each row of the catalogue
FieldsOfRow == [r \in LineCatalogue |-> FieldsOfText(r)]
Fields(r) == FieldsOfRow[r]

InterfaceToken(r) == Fields(r)[1]

\* the rows bearing interface token k, in line order
RowsOf(k) == SelectSeq(rows, LAMBDA r : InterfaceToken(r) = k)

\* the endpoint a well-formed row stands for
EndpointOfRow ==
    [r \in GoodRows |-> IF Row(Tokens(r)).tag = "Ok" THEN Row(Tokens(r)).endpoint ELSE Panic]

\* try_from has returned, and nothing has been rendered yet
Returned == pc = "parsed"

Parsed == Returned /\ result.tag = "Ok"
Rendered == pc = "rendered"

RemotesOf(k) == SelectSeq(result.interfaces[k], LAMBDA e : e.kind = "Remote")

Families ==
    << pc_sent_bytes_total.name, pc_received_bytes_total.name, pc_latest_handshake.name >>

FamilyIndex(l) == CHOOSE f \in 1..3 : Families[f] = l.name

IsSample(l) == l.kind = "sample"

Label(l, key) ==
    LET i == CHOOSE i \in 1..Len(l.labels) : l.labels[i][1] = key
    IN  l.labels[i][2]

LabelCount(l, key) == Cardinality({i \in 1..Len(l.labels) : l.labels[i][1] = key})

\* the sample lines of family f for interface k, in output order
SamplesOf(f, k) ==
    SelectSeq(output, LAMBDA l : IsSample(l) /\ l.name = Families[f] /\ Label(l, "inteface") = k)

\* the field of a remote endpoint that family f reports
FamilyValue(f, e) ==
    IF f = 1 THEN e.sent_bytes ELSE IF f = 2 THEN e.received_bytes ELSE e.latest_handshake

BaseLabels(l) ==
    << << "inteface", Label(l, "inteface") >>,
       << "public_key", Label(l, "public_key") >>,
       << "local_ip", Label(l, "local_ip") >>,
       << "local_subnet", Label(l, "local_subnet") >> >>

-----------------------------------------------------------------------------
(* The claims *)

\* C1: the output is the three families in the order sent_bytes_total,
\* received_bytes_total, latest_handshake_seconds, each one contiguous block:
\* its HELP line, its TYPE line, then only sample lines of that family; no
\* line of one family lies inside the block of another.
C1_FamiliesGrouped ==
    Rendered =>
        /\ \A i \in 1..Len(output) : output[i].name \in {Families[f] : f \in 1..3}
        /\ \A i, j \in 1..Len(output) :
              i < j => FamilyIndex(output[i]) <= FamilyIndex(output[j])
        /\ \A f \in 1..3 :
              LET block == SelectSeq(output, LAMBDA l : l.name = Families[f])
              IN  /\ Len(block) >= 2
                  /\ block[1].kind = "HELP"
                  /\ block[2].kind = "TYPE"
                  /\ \A i \in 3..Len(block) : IsSample(block[i])

\* two interfaces with remote endpoints have been rendered
C1_Witness ==
    /\ Rendered
    /\ Cardinality({k \in DOMAIN result.interfaces : Len(RemotesOf(k)) > 0}) = 2
    /\ Len(output) >= 12

\* C2: for well-formed input the table has exactly one key per distinct
\* interface token, and each key's sequence is as long as the number of rows
\* bearing that token: no row is dropped, merged or duplicated.
C2_OneEntryPerToken ==
    (Returned /\ WellFormedInput) =>
        /\ result.tag = "Ok"
        /\ DOMAIN result.interfaces = {InterfaceToken(rows[i]) : i \in 1..Len(rows)}
        /\ \A k \in DOMAIN result.interfaces :
              Len(result.interfaces[k]) =
                  Cardinality({i \in 1..Len(rows) : InterfaceToken(rows[i]) = k})

\* two interfaces, one of them with two rows of the same public key
C2_Witness ==
    /\ pc = "parsed"
    /\ WellFormedInput
    /\ rows = << RemoteWg0Addr, RemoteWg1Psk, RemoteWg0Addr >>
    /\ Len(result.interfaces["wg0"]) = 2

\* C3: the i-th endpoint of an interface is the one built from the i-th row
\* bearing its token, and in each family the sample lines of one interface
\* are its remote endpoints in that same order.
C3_OrderPreserved ==
    /\ Parsed =>
          \A k \in DOMAIN result.interfaces :
              /\ Len(result.interfaces[k]) = Len(RowsOf(k))
              /\ \A i \in 1..Len(RowsOf(k)) :
                    result.interfaces[k][i] = EndpointOfRow[RowsOf(k)[i]]
    /\ Rendered =>
          \A k \in DOMAIN result.interfaces : \A f \in 1..3 :
              LET samples == SamplesOf(f, k)
                  remotes == RemotesOf(k)
              IN  /\ Len(samples) = Len(remotes)
                  /\ \A i \in 1..Len(remotes) :
                        /\ Label(samples[i], "public_key") = remotes[i].public_key
                        /\ Label(samples[i], "local_ip") = remotes[i].local_ip
                        /\ samples[i].value = FamilyValue(f, remotes[i])

\* two different remote rows of wg0 with a row of wg1 between them, rendered
C3_Witness ==
    /\ Rendered
    /\ rows = << RemoteWg0None, RemoteWg1Psk, RemoteWg0Addr >>
    /\ Label(SamplesOf(1, "wg0")[1], "public_key") = "K2"
    /\ Label(SamplesOf(1, "wg0")[2], "public_key") = "K1"

\* C4: a sample line carries friendly_name only if the lookup is supplied
\* and gives its public key a name that is present and non-empty; otherwise
\* its labels are exactly inteface, public_key, local_ip, local_subnet.
C4_NonEmptyNameOnly ==
    Rendered =>
        \A i \in 1..Len(output) :
            IsSample(output[i]) =>
                LET l  == output[i]
                    pk == Label(l, "public_key")
                    named == /\ IsSome(pehm)
                             /\ pk \in DOMAIN Unwrap(pehm)
                             /\ IsSome(Unwrap(pehm)[pk].name)
                             /\ Unwrap(Unwrap(pehm)[pk].name) # ""
                IN  /\ LabelCount(l, "friendly_name") > 0 => named
                    /\ ~named => l.labels = BaseLabels(l)

C6_LocalNeverRendered ==
    Rendered =>
        /\ \A i \in 1..Len(output) :
              IsSample(output[i]) =>
                  /\ Label(output[i], "inteface") \in DOMAIN result.interfaces
                  /\ \E j \in 1..Len(RemotesOf(Label(output[i], "inteface"))) :
                        LET e == RemotesOf(Label(output[i], "inteface"))[j]
                        IN  /\ e.public_key = Label(output[i], "public_key")
                            /\ e.local_ip = Label(output[i], "local_ip")
                            /\ e.local_subnet = Label(output[i], "local_subnet")
        /\ \A k \in DOMAIN result.interfaces : \A f \in 1..3 :
              Len(SamplesOf(f, k)) = Len(RemotesOf(k))
        /\ (\A k \in DOMAIN result.interfaces : Len(RemotesOf(k)) = 0) => Len(output) = 6

\* a local and a remote endpoint rendered with a lookup that names the local
\* endpoint's public key
C6_Witness ==
    /\ Rendered
    /\ rows = << LocalWg0, RemoteWg0Addr >>
    /\ IsSome(pehm)
    /\ "Kl" \in DOMAIN Unwrap(pehm)
    /\ Unwrap(pehm)["Kl"].name = Some("bob")
    /\ Len(output) = 9

\* C7: a remote row whose handshake field is no unsigned integer, at any
\* position after well-formed rows, makes try_from return the format error
\* and no table: nothing is rendered from the rows before it.
C7_BadHandshakeFails ==
    (pc # "start" /\ \E i \in 1..Len(rows) :
                        /\ rows[i] = BadHandshake
                        /\ \A j \in 1..(i - 1) : rows[j] \in GoodRows) =>
        /\ result = Err
        /\ ~Rendered

\* the bad row is the last of three: two endpoints were built before it
C7_Witness ==
    /\ pc = "parsed"
    /\ rows = << LocalWg0, RemoteWg0Addr, BadHandshake >>
    /\ result = Err

\* C8: for valid input every row yields exactly one endpoint, Local when the
\* row has five non-empty fields (its fields 2 to 5 are the public key, the
\* private key, the port and the keepalive flag), Remote when it has nine.
C8_RowShape ==
    (Returned /\ WellFormedInput) =>
        /\ result.tag = "Ok"
        /\ \A k \in DOMAIN result.interfaces :
              /\ Len(result.interfaces[k]) = Len(RowsOf(k))
              /\ \A i \in 1..Len(RowsOf(k)) :
                    LET e == result.interfaces[k][i]
                        v == Fields(RowsOf(k)[i])
                    IN  /\ e.kind \in {"Local", "Remote"}
                        /\ Len(v) = 5 =>
                              /\ e.kind = "Local"
                              /\ e.public_key = v[2]
                              /\ e.private_key = v[3]
                              /\ UIntToString(e.local_port) = v[4]
                              /\ e.persistent_keepalive = (v[5] # "off")
                        /\ Len(v) = 9 =>
                              /\ e.kind = "Remote"
                              /\ e.public_key = v[2]

\* a local row with stray tabs and a remote row with a stray tab
C8_Witness ==
    /\ pc = "parsed"
    /\ rows = << LocalWg1Stray, RemoteWg1Psk >>
    /\ result.tag = "Ok"
    /\ result.interfaces["wg1"][1].kind = "Local"
    /\ result.interfaces["wg1"][2].kind = "Remote"

\* C9: remote_ip and remote_port of a remote endpoint are absent together,
\* exactly when the row's fourth field is "(none)", and otherwise present
\* together and make up that field as ip:port; the third field plays no part.
C9_RemoteAddrPair ==
    Parsed =>
        \A k \in DOMAIN result.interfaces :
            \A i \in 1..Len(result.interfaces[k]) :
                LET e == result.interfaces[k][i]
                    v == Fields(RowsOf(k)[i])
                IN  e.kind = "Remote" =>
                        /\ IsSome(e.remote_ip) <=> IsSome(e.remote_port)
                        /\ v[4] = "(none)" <=> ~IsSome(e.remote_ip)
                        /\ IsSome(e.remote_ip) =>
                              Unwrap(e.remote_ip) \o ":" \o UIntToString(Unwrap(e.remote_port))
                                  = v[4]

\* one row with a placeholder and an address, one with a third field that
\* is no placeholder and no address
C9_Witness ==
    /\ pc = "parsed"
    /\ rows = << RemoteWg0Addr, RemoteWg1Psk >>
    /\ result.tag = "Ok"
    /\ result.interfaces["wg0"][1].remote_port = Some(80)
    /\ result.interfaces["wg1"][1].remote_ip = None

\* C10, as stated: a well-formed text (here one of at least one row) followed
\* by one or more further line terminators parses, and to the table of the
\* text alone.
C10_TrailingEmptyLinesDiscarded ==
    (Returned /\ WellFormedRows /\ Len(rows) > 0 /\ trailing >= 1) =>
        /\ result.tag = "Ok"
        /\ result = try_from(Dump(rows, 0))

\* C10, amended: only the final line terminator is dropped.  A non-empty
\* well-formed text parses to the same table with or without it; every
\* further terminator, and a terminator after an empty text, is an empty
\* line, which reaches the row decoding and panics there.
C10_OnlyFinalTerminatorDropped ==
    (Returned /\ WellFormedRows) =>
        /\ (trailing <= 1 /\ Len(rows) > 0) =>
              (result.tag = "Ok" /\ result = try_from(Dump(rows, 0)))
        /\ (trailing >= 2 \/ (trailing = 1 /\ Len(rows) = 0)) => result = Panic
        /\ (trailing = 0 /\ Len(rows) = 0) => result = OkTable(EmptyMap)

\* two rows and the final line terminator, parsed to a table of both
C10_Witness ==
    /\ pc = "parsed"
    /\ rows = << LocalWg0, RemoteWg0Addr >>
    /\ trailing = 1
    /\ result.tag = "Ok"
    /\ Len(result.interfaces["wg0"]) = 2

====
